---- MODULE Spec2Model ----
(* StackBuffer<T, N> of the barf crate (src/src/stack_buffer.rs), the      *)
(* Barfer capability (src/src/lib.rs) and the byte encoders built on it    *)
(* (src/src/ext/barfer_ext.rs).                                            *)
EXTENDS Integers, Sequences, FiniteSets, TLC

(* ---------------------------------------------------------------- bounds *)
MaxN == 2            \* capacities 0..MaxN of the generic store
MaxVal == 2          \* element values 1..MaxVal
MaxInput == 3        \* longest iterator / slice handed to one call
MaxByteN == 10       \* capacities 0..MaxByteN of the byte store
UsizeBits == 5       \* width of usize, scaled down
MaxVarN == 4         \* capacities 0..MaxVarN of the store of encoded integers
MaxVec == 4          \* longest Vec<T> built next to the StackBuffer

(* usize::MAX + 1                                                          *)
UsizeRange == 2 ^ UsizeBits

Vals == 1..MaxVal
Inputs == UNION {[1..m -> Vals] : m \in 0..MaxInput}

(* The periods of the endless iterators: one value, or two in turn.        *)
Cycles == UNION {[1..m -> Vals] : m \in 1..2}

(* A slot of [MaybeUninit<T>; N] that holds no value of T.                 *)
Uninit == -1

Ok == "Ok"
NotEnoughCapacity == "NotEnoughCapacity"

(* The call did not return: arithmetic overflow with overflow checks on,   *)
(* or an index out of bounds.                                              *)
Panic == "panic"

VARIABLES
    N,          \* const generic N of StackBuffer<T, N>
    buffer,     \* self.buffer : [MaybeUninit<T>; N], indexed 0..N-1
    len,        \* self.len
    alive,      \* FALSE once the store has been destroyed
    committed,  \* history: elements of every append that returned Ok, in order
    pushed,     \* history: values given to push while only pushes were made
    tracking,   \* history: TRUE while pushed records every call since new()
    last,       \* the last call: name, input, result, effects, pre-state
    target,     \* byte order of the build target ("little" or "big")
    overflow_checks, \* TRUE in a build that panics on integer overflow
    hist,       \* history: get() before the latest failed append, and the
                \* elements appended since
    vec         \* a Vec<T> driven by the same calls as the StackBuffer

vars == <<N, buffer, len, alive, committed, pushed, tracking, last, target,
          overflow_checks, hist, vec>>

(* ------------------------------------------------------------ StackBuffer *)
Self == [buffer |-> buffer, len |-> len]

(* StackBuffer::new: every slot uninitialised, len 0.                      *)
new(n) == [buffer |-> [i \in 0..(n - 1) |-> Uninit], len |-> 0]

(* StackBuffer::get: the slots [0, len) as a slice.                        *)
get(self) == [i \in 1..self.len |-> self.buffer[i - 1]]

(* What a call leaves behind: the store, the Result, the number of slot    *)
(* writes, the number of elements taken from the input, the values         *)
(* finalised during the call in the order of their finalisation (those the *)
(* input still owned when the call returned included), and the slots whose *)
(* occupant was finalised in place.                                        *)
Ret(b, l, res, w, p, fin) ==
    [buffer |-> b, len |-> l, result |-> res, writes |-> w, pulled |-> p,
     finalized |-> fin, dropped |-> {}]

(* push with the capacity test off by one: the last slot is never used.    *)
push_early_full(self, value) ==
    IF self.len + 1 >= N
    THEN Ret(self.buffer, self.len, NotEnoughCapacity, 0, 1, <<value>>)
    ELSE Ret([self.buffer EXCEPT ![self.len] = value], self.len + 1, Ok, 1, 1, <<>>)

(* push that tests len > N: a full store accepts one more.                 *)
push_late_full(self, value) ==
    IF self.len > N
    THEN Ret(self.buffer, self.len, NotEnoughCapacity, 0, 1, <<value>>)
    ELSE Ret([self.buffer EXCEPT ![self.len] = value], self.len + 1, Ok, 1, 1, <<>>)

(* push that overwrites the last slot of a full store.                     *)
push_wraps(self, value) ==
    IF self.len >= N
    THEN Ret([self.buffer EXCEPT ![N - 1] = value], self.len,
             NotEnoughCapacity, 1, 1, <<>>)
    ELSE Ret([self.buffer EXCEPT ![self.len] = value], self.len + 1, Ok, 1, 1, <<>>)

(* StackBuffer::push                                                       *)
push(self, value) ==
    IF self.len >= N
    THEN Ret(self.buffer, self.len, NotEnoughCapacity, 0, 1, <<value>>)
    ELSE Ret([self.buffer EXCEPT ![self.len] = value], self.len + 1, Ok, 1, 1, <<>>)

(* extend without `self.len = initial_len` on the failure path.            *)
RECURSIVE extend_loop_no_rollback(_, _, _, _, _)
extend_loop_no_rollback(b, l, initial_len, values, i) ==
    IF i > Len(values)
    THEN Ret(b, l, Ok, i - 1, Len(values), <<>>)
    ELSE IF l >= N
         THEN Ret(b, l, NotEnoughCapacity, i - 1, i,
                  SubSeq(values, i, Len(values)))
         ELSE extend_loop_no_rollback([b EXCEPT ![l] = values[i]], l + 1,
                                      initial_len, values, i + 1)

(* extend whose failure path empties the store instead of restoring len.   *)
RECURSIVE extend_loop_reset(_, _, _, _, _)
extend_loop_reset(b, l, initial_len, values, i) ==
    IF i > Len(values)
    THEN Ret(b, l, Ok, i - 1, Len(values), <<>>)
    ELSE IF l >= N
         THEN Ret(b, 0, NotEnoughCapacity, i - 1, i,
                  SubSeq(values, i, Len(values)))
         ELSE extend_loop_reset([b EXCEPT ![l] = values[i]], l + 1,
                                initial_len, values, i + 1)

(* extend that keeps pulling from the input after the store is full.       *)
RECURSIVE extend_loop_drain(_, _, _, _, _)
extend_loop_drain(b, l, initial_len, values, i) ==
    IF i > Len(values)
    THEN Ret(b, IF l > N THEN initial_len ELSE l,
             IF l > N THEN NotEnoughCapacity ELSE Ok, i - 1, Len(values), <<>>)
    ELSE IF l >= N
         THEN extend_loop_drain(b, N + 1, initial_len, values, i + 1)
         ELSE extend_loop_drain([b EXCEPT ![l] = values[i]], l + 1,
                                initial_len, values, i + 1)

(* extend whose failure path marks the store full.                         *)
RECURSIVE extend_loop_poison(_, _, _, _, _)
extend_loop_poison(b, l, initial_len, values, i) ==
    IF i > Len(values)
    THEN Ret(b, l, Ok, i - 1, Len(values), <<>>)
    ELSE IF l >= N
         THEN Ret(b, N, NotEnoughCapacity, i - 1, i,
                  SubSeq(values, i, Len(values)))
         ELSE extend_loop_poison([b EXCEPT ![l] = values[i]], l + 1,
                                 initial_len, values, i + 1)

(* extend that tests len > N: a full store takes one more element.         *)
RECURSIVE extend_loop_off_by_one(_, _, _, _, _)
extend_loop_off_by_one(b, l, initial_len, values, i) ==
    IF i > Len(values)
    THEN Ret(b, l, Ok, i - 1, Len(values), <<>>)
    ELSE IF l > N
         THEN Ret(b, initial_len, NotEnoughCapacity, i - 1, i,
                  SubSeq(values, i, Len(values)))
         ELSE extend_loop_off_by_one([b EXCEPT ![l] = values[i]], l + 1,
                                     initial_len, values, i + 1)

(* extend whose rollback finalises the slots it had written.               *)
RECURSIVE extend_loop_finalize_written(_, _, _, _, _)
extend_loop_finalize_written(b, l, initial_len, values, i) ==
    IF i > Len(values)
    THEN Ret(b, l, Ok, i - 1, Len(values), <<>>)
    ELSE IF l >= N
         THEN [Ret(b, initial_len, NotEnoughCapacity, i - 1, i,
                   SubSeq(values, i, Len(values)))
                 EXCEPT !.dropped = initial_len..(l - 1)]
         ELSE extend_loop_finalize_written([b EXCEPT ![l] = values[i]], l + 1,
                                           initial_len, values, i + 1)

(* The for loop of StackBuffer::extend, at the i-th element of the input.  *)
(* The loop owns the iterator of a collection handed over by value: on the *)
(* early return the element just taken is finalised, then the elements the *)
(* iterator has not yielded.                                               *)
RECURSIVE extend_loop(_, _, _, _, _)
extend_loop(b, l, initial_len, values, i) ==
    IF i > Len(values)
    THEN Ret(b, l, Ok, i - 1, Len(values), <<>>)
    ELSE IF l >= N
         THEN Ret(b, initial_len, NotEnoughCapacity, i - 1, i,
                  SubSeq(values, i, Len(values)))
         ELSE extend_loop([b EXCEPT ![l] = values[i]], l + 1, initial_len, values, i + 1)

(* StackBuffer::extend                                                     *)
extend(self, iter) == extend_loop(self.buffer, self.len, self.len, iter, 1)

(* The i-th element of an iterator that repeats cyc for ever.              *)
CycleAt(cyc, i) == cyc[((i - 1) % Len(cyc)) + 1]

(* The for loop of StackBuffer::extend on an iterator that never ends and  *)
(* makes each element when asked for it: values.next() is always Some, and *)
(* the iterator owns no element it has not yielded.                        *)
RECURSIVE extend_unbounded_loop(_, _, _, _, _)
extend_unbounded_loop(b, l, initial_len, cyc, i) ==
    IF l >= N
    THEN Ret(b, initial_len, NotEnoughCapacity, i - 1, i, <<CycleAt(cyc, i)>>)
    ELSE extend_unbounded_loop([b EXCEPT ![l] = CycleAt(cyc, i)], l + 1,
                               initial_len, cyc, i + 1)

(* StackBuffer::extend on an endless iterator whose i-th element is        *)
(* CycleAt(cyc, i).                                                        *)
extend_unbounded(self, cyc) ==
    extend_unbounded_loop(self.buffer, self.len, self.len, cyc, 1)

(* The for loop of StackBuffer::extend_from_slice; self.buffer[self.len]   *)
(* is a checked index.                                                     *)
RECURSIVE slice_loop(_, _, _, _)
slice_loop(b, l, values, i) ==
    IF i > Len(values)
    THEN Ret(b, l, Ok, i - 1, Len(values), <<>>)
    ELSE IF l >= N
         THEN Ret(b, l, Panic, i - 1, i, <<>>)
         ELSE slice_loop([b EXCEPT ![l] = values[i]], l + 1, values, i + 1)

(* extend_from_slice whose test rejects a slice that fits exactly.         *)
extend_from_slice_strict(self, values) ==
    IF self.len + Len(values) >= N
    THEN Ret(self.buffer, self.len, NotEnoughCapacity, 0, 0, <<>>)
    ELSE slice_loop(self.buffer, self.len, values, 1)

(* StackBuffer::extend_from_slice; self.len + values.len() is a usize sum: *)
(* past usize::MAX it panics with overflow checks and wraps without.       *)
extend_from_slice(self, values) ==
    LET sum == self.len + Len(values) IN
    IF sum >= UsizeRange /\ overflow_checks
    THEN Ret(self.buffer, self.len, Panic, 0, 0, <<>>)
    ELSE IF sum % UsizeRange > N
         THEN Ret(self.buffer, self.len, NotEnoughCapacity, 0, 0, <<>>)
         ELSE slice_loop(self.buffer, self.len, values, 1)

(* Drop glue of StackBuffer: there is no Drop impl, and neither            *)
(* [MaybeUninit<T>; N] nor usize finalises anything.                       *)
drop(self) == Ret(self.buffer, self.len, Ok, 0, 0, <<>>)

(* ------------------------------------------------- Barfer for StackBuffer *)
(* <StackBuffer as Barfer>::single                                         *)
single(self, value) == push(self, value)

(* The for loop of the trait's provided Barfer::many: one single per       *)
(* element, `?` returns the first error, nothing is undone; the elements   *)
(* the iterator has not yielded are finalised with it.                     *)
RECURSIVE many_default_loop(_, _, _, _)
many_default_loop(self, iter, i, w) ==
    IF i > Len(iter)
    THEN Ret(self.buffer, self.len, Ok, w, Len(iter), <<>>)
    ELSE LET r == single(self, iter[i]) IN
         IF r.result # Ok
         THEN Ret(r.buffer, r.len, r.result, w + r.writes, i,
                  r.finalized \o SubSeq(iter, i + 1, Len(iter)))
         ELSE many_default_loop([buffer |-> r.buffer, len |-> r.len], iter,
                                i + 1, w + r.writes)

(* a provided many that undoes the earlier appends when a single fails.    *)
many_default_atomic(self, iter) == extend(self, iter)

(* Barfer::many as provided by the trait, on a store whose single is       *)
(* StackBuffer's.                                                          *)
many_default(self, iter) == many_default_loop(self, iter, 1, 0)

(* a StackBuffer that does not override many: no rollback of len.          *)
many_not_overridden(self, iter) == many_default_loop(self, iter, 1, 0)

(* <StackBuffer as Barfer>::many                                           *)
many(self, iter) == extend(self, iter)

(* a slice that refuses to fill the store to the brim.                     *)
slice_strict(self, values) == extend_from_slice_strict(self, values)

(* <StackBuffer as Barfer>::slice                                          *)
slice(self, values) == extend_from_slice(self, values)

(* --------------------------------------------------------- Barfer for Vec *)
(* <Vec<T> as Barfer<T>>::single: Vec::push                                *)
vec_single(v, value) == Append(v, value)

(* <Vec<T> as Barfer<T>>::many: Vec::extend                                *)
vec_many(v, iter) == v \o iter

(* <Vec<T> as Barfer<T>>::slice: Vec::extend_from_slice                    *)
vec_slice(v, values) == v \o values

(* ---------------------------------------------------------- ByteBarferExt *)
(* The integer and floating-point types of the numbers! table and size_of  *)
(* each.                                                                   *)
IntTypes == {"u8", "u16", "u32", "u64", "u128", "i8", "i16", "i32", "i64", "i128"}
FloatTypes == {"f32", "f64"}
Orders == {"le", "be", "ne"}

Width(ty) ==
    CASE ty \in {"u8", "i8"} -> 1
      [] ty \in {"u16", "i16"} -> 2
      [] ty \in {"u32", "i32", "f32"} -> 4
      [] ty \in {"u64", "i64", "f64"} -> 8
      [] ty \in {"u128", "i128"} -> 16

Signed(ty) == ty \in {"i8", "i16", "i32", "i64", "i128"}

Reverse(bytes) == [i \in 1..Len(bytes) |-> bytes[Len(bytes) + 1 - i]]

(* <int>::to_le_bytes: the w bytes of the two's complement representation, *)
(* least significant first.                                                *)
RECURSIVE to_le_bytes(_, _)
to_le_bytes(num, w) ==
    IF w = 0 THEN <<>> ELSE <<num % 256>> \o to_le_bytes(num \div 256, w - 1)

(* <int>::to_be_bytes                                                      *)
to_be_bytes(num, w) == Reverse(to_le_bytes(num, w))

(* <int>::to_ne_bytes                                                      *)
to_ne_bytes(num, w) ==
    IF target = "little" THEN to_le_bytes(num, w) ELSE to_be_bytes(num, w)

(* a numbers! table whose "big" and "little" rows name each other's $fn.   *)
to_bytes_rows_swapped(order, num, w) ==
    CASE order = "le" -> to_be_bytes(num, w)
      [] order = "be" -> to_le_bytes(num, w)
      [] order = "ne" -> to_ne_bytes(num, w)

(* The $fn of a row of the numbers! table.                                 *)
to_bytes(order, num, w) ==
    CASE order = "le" -> to_le_bytes(num, w)
      [] order = "be" -> to_be_bytes(num, w)
      [] order = "ne" -> to_ne_bytes(num, w)

(* <int>::from_be_bytes, most significant byte first; the first byte       *)
(* carries the sign of a signed type.                                      *)
RECURSIVE from_be_acc(_, _)
from_be_acc(acc, bytes) ==
    IF bytes = <<>> THEN acc ELSE from_be_acc(acc * 256 + Head(bytes), Tail(bytes))

from_be_bytes(bytes, signed) ==
    IF bytes = <<>> THEN 0
    ELSE from_be_acc(IF signed /\ Head(bytes) >= 128 THEN Head(bytes) - 256
                     ELSE Head(bytes), Tail(bytes))

(* <int>::from_le_bytes                                                    *)
from_le_bytes(bytes, signed) == from_be_bytes(Reverse(bytes), signed)

(* <int>::from_ne_bytes                                                    *)
from_ne_bytes(bytes, signed) ==
    IF target = "little" THEN from_le_bytes(bytes, signed)
    ELSE from_be_bytes(bytes, signed)

(* The $back of a row of the numbers! table.                               *)
from_bytes(order, bytes, signed) ==
    CASE order = "le" -> from_le_bytes(bytes, signed)
      [] order = "be" -> from_be_bytes(bytes, signed)
      [] order = "ne" -> from_ne_bytes(bytes, signed)

(* ------------------------------------------------------ f32 and f64 *)
(* A finite value of f32 or f64: (-1)^neg * mant * 2^exp with mant odd, or *)
(* a zero (mant = 0, exp = 0) of either sign.                              *)
Float(neg, mant, exp) == [neg |-> neg, mant |-> mant, exp |-> exp]

(* The widths of the exponent and fraction fields and the exponent bias.   *)
ExpBits(ty) == IF ty = "f32" THEN 8 ELSE 11
FracBits(ty) == IF ty = "f32" THEN 23 ELSE 52
Bias(ty) == IF ty = "f32" THEN 127 ELSE 1023

(* The number of binary digits of m.                                       *)
RECURSIVE BitLen(_)
BitLen(m) == IF m = 0 THEN 0 ELSE 1 + BitLen(m \div 2)

(* The n low binary digits of m, most significant first.                   *)
RECURSIVE Bits(_, _)
Bits(m, n) == IF n = 0 THEN <<>> ELSE Append(Bits(m \div 2, n - 1), m % 2)

(* The number a sequence of binary digits spells, most significant first.  *)
RECURSIVE BitsValue(_)
BitsValue(bits) ==
    IF bits = <<>> THEN 0
    ELSE 2 * BitsValue(SubSeq(bits, 1, Len(bits) - 1)) + bits[Len(bits)]

Zeros(n) == [i \in 1..n |-> 0]

(* f32::to_bits / f64::to_bits as the digits of the u32 / u64, most        *)
(* significant first: sign, biased exponent, fraction without the leading  *)
(* one of the significand.                                                 *)
to_bits(x, ty) ==
    LET sign == IF x.neg THEN 1 ELSE 0
        digits == BitLen(x.mant)
    IN  IF x.mant = 0
        THEN <<sign>> \o Zeros(ExpBits(ty) + FracBits(ty))
        ELSE <<sign>>
             \o Bits(x.exp + digits - 1 + Bias(ty), ExpBits(ty))
             \o Tail(Bits(x.mant, digits))
             \o Zeros(FracBits(ty) - (digits - 1))

(* <float>::to_be_bytes: self.to_bits().to_be_bytes()                      *)
float_to_be_bytes(x, ty) ==
    LET bits == to_bits(x, ty) IN
    [i \in 1..Width(ty) |-> BitsValue(SubSeq(bits, 8 * i - 7, 8 * i))]

(* <float>::to_le_bytes                                                    *)
float_to_le_bytes(x, ty) == Reverse(float_to_be_bytes(x, ty))

(* <float>::to_ne_bytes                                                    *)
float_to_ne_bytes(x, ty) ==
    IF target = "little" THEN float_to_le_bytes(x, ty)
    ELSE float_to_be_bytes(x, ty)

(* The $fn of a row of the numbers! table on f32 and f64.                  *)
float_to_bytes(order, x, ty) ==
    CASE order = "le" -> float_to_le_bytes(x, ty)
      [] order = "be" -> float_to_be_bytes(x, ty)
      [] order = "ne" -> float_to_ne_bytes(x, ty)

(* The digits of a sequence of bytes, most significant byte first.         *)
RECURSIVE BytesBits(_)
BytesBits(bytes) ==
    IF bytes = <<>> THEN <<>> ELSE Bits(Head(bytes), 8) \o BytesBits(Tail(bytes))

(* The number of zero digits at the end of a sequence of binary digits.    *)
RECURSIVE TrailingZeros(_)
TrailingZeros(bits) ==
    IF bits = <<>> \/ bits[Len(bits)] = 1 THEN 0
    ELSE 1 + TrailingZeros(SubSeq(bits, 1, Len(bits) - 1))

(* <float>::from_bits on a zero or a normal number.                        *)
from_bits(bits, ty) ==
    LET e == BitsValue(SubSeq(bits, 2, ExpBits(ty) + 1))
        frac == SubSeq(bits, ExpBits(ty) + 2, Len(bits))
        significand == <<1>> \o frac
        t == TrailingZeros(significand)
    IN  IF e = 0 /\ frac = Zeros(FracBits(ty))
        THEN Float(bits[1] = 1, 0, 0)
        ELSE Float(bits[1] = 1,
                   BitsValue(SubSeq(significand, 1, Len(significand) - t)),
                   e - Bias(ty) - FracBits(ty) + t)

(* <float>::from_be_bytes: from_bits(u::from_be_bytes(bytes))              *)
float_from_be_bytes(bytes, ty) == from_bits(BytesBits(bytes), ty)

(* <float>::from_le_bytes                                                  *)
float_from_le_bytes(bytes, ty) == float_from_be_bytes(Reverse(bytes), ty)

(* <float>::from_ne_bytes                                                  *)
float_from_ne_bytes(bytes, ty) ==
    IF target = "little" THEN float_from_le_bytes(bytes, ty)
    ELSE float_from_be_bytes(bytes, ty)

(* The $back of a row of the numbers! table on f32 and f64.                *)
float_from_bytes(order, bytes, ty) ==
    CASE order = "le" -> float_from_le_bytes(bytes, ty)
      [] order = "be" -> float_from_be_bytes(bytes, ty)
      [] order = "ne" -> float_from_ne_bytes(bytes, ty)

(* num.$fn() for a row of the table and a type $in of it.                  *)
encode(order, ty, num) ==
    IF ty \in FloatTypes THEN float_to_bytes(order, num, ty)
    ELSE to_bytes(order, num, Width(ty))

(* <$in>::$back(bytes) for a row of the table and a type $in of it.        *)
decode(order, ty, bytes) ==
    IF ty \in FloatTypes THEN float_from_bytes(order, bytes, ty)
    ELSE from_bytes(order, bytes, Signed(ty))

(* The function the numbers! macro generates for one (order, type) row:    *)
(* self.many(num.$fn()).                                                   *)
number(self, order, ty, num) == many(self, encode(order, ty, num))

(* ByteBarferExt's generated function on a Vec<u8>.                        *)
number_vec(v, order, ty, num) == vec_many(v, encode(order, ty, num))

(* Is num a value of the integer type ty?                                  *)
InType(num, ty) ==
    LET w == Width(ty) IN
    IF Signed(ty)
    THEN w >= 4 \/ (num >= -((256 ^ w) \div 2) /\ num < (256 ^ w) \div 2)
    ELSE num >= 0 /\ (w >= 4 \/ num < 256 ^ w)

(* 0, the least and greatest values of the narrow types, mid-range values. *)
Candidates ==
    {0, 1, 42, 127, 128, 255, 256, 258, 32767, 32768, 65535, 314159,
     2147483647, -1, -2, -128, -129, -32768, -314159, -2147483647 - 1}

(* Is x a zero or a normal number of the floating-point type ty?           *)
InFloat(x, ty) ==
    \/ x.mant = 0 /\ x.exp = 0
    \/ /\ x.mant % 2 = 1
       /\ BitLen(x.mant) <= FracBits(ty) + 1
       /\ x.exp + BitLen(x.mant) - 1 + Bias(ty) \in 1..(2 ^ ExpBits(ty) - 2)

(* 0.0, -0.0, 1.0, 1.5, -2.0, 42.0, 0.15625, -314159.0, the least positive *)
(* normal f32 and f64, the greatest f32.                                   *)
FloatCandidates ==
    {Float(FALSE, 0, 0), Float(TRUE, 0, 0), Float(FALSE, 1, 0),
     Float(FALSE, 3, -1), Float(TRUE, 1, 1), Float(FALSE, 21, 1),
     Float(FALSE, 5, -5), Float(TRUE, 314159, 0), Float(FALSE, 1, -126),
     Float(FALSE, 1, -1022), Float(FALSE, 16777215, 104)}

RoundNums(ty) ==
    IF ty \in FloatTypes THEN {x \in FloatCandidates : InFloat(x, ty)}
    ELSE {num \in Candidates : InType(num, ty)}

(* Numbers appended to the byte store (42 and 42.0), and the types they    *)
(* are taken from: the floating-point types and integer types of 2, 8 and  *)
(* 16 bytes.                                                               *)
Nums(ty) == IF ty \in FloatTypes THEN {Float(FALSE, 21, 1)} ELSE {42}
ByteTypes == {"u16", "u64", "f32", "f64", "i128"}

(* ------------------------------------------- variable-length integers *)
(* nano_leb128::ULEB128::write_into: 7 bits per byte from the least        *)
(* significant group up, bit 7 set on every byte but the last.             *)
RECURSIVE uleb128_groups(_)
uleb128_groups(num) ==
    IF num < 128 THEN <<num>>
    ELSE <<(num % 128) + 128>> \o uleb128_groups(num \div 128)

(* nano_leb128::SLEB128::write_into: as above on the two's complement      *)
(* value; the last byte is the one whose bit 6 carries the sign.           *)
RECURSIVE sleb128_groups(_)
sleb128_groups(num) ==
    LET byte == num % 128
        rest == num \div 128
    IN  IF (rest = 0 /\ byte < 64) \/ (rest = -1 /\ byte >= 64)
        THEN <<byte>>
        ELSE <<byte + 128>> \o sleb128_groups(rest)

(* The scratch array `encoded` after write_into, and the length returned.  *)
Scratch(groups) ==
    [encoded |-> groups \o [i \in 1..(10 - Len(groups)) |-> 0],
     len |-> Len(groups)]

(* vint64::encoded_len                                                     *)
RECURSIVE vint64_len(_, _)
vint64_len(num, n) ==
    IF n = 9 \/ num < 128 THEN n ELSE vint64_len(num \div 128, n + 1)

(* vint64::encode: ((num << 1) | 1) << (n - 1) as n little-endian bytes;   *)
(* with n = 9 a zero byte followed by the 8 bytes of num.                  *)
vint64_encode(num) ==
    LET n == vint64_len(num, 1) IN
    IF n = 9 THEN <<0>> \o to_le_bytes(num, 8)
    ELSE <<(num % (2 ^ (8 - n))) * (2 ^ n) + 2 ^ (n - 1)>>
         \o to_le_bytes(num \div (2 ^ (8 - n)), n - 1)

(* vint64::signed::zigzag::encode                                          *)
zigzag(num) == IF num >= 0 THEN 2 * num ELSE -(2 * num) - 1

(* vint64::signed::encode                                                  *)
vint64_signed_encode(num) == vint64_encode(zigzag(num))

VarintKinds == {"uleb128", "sleb128", "uvint64", "svint64"}

(* uleb128 handing the whole scratch array to slice.                       *)
uleb128_bytes_whole_scratch(num) == Scratch(uleb128_groups(num)).encoded

(* The slice ByteBarferExt::uleb128 hands on: &encoded[..len].             *)
uleb128_bytes(num) ==
    LET e == Scratch(uleb128_groups(num)) IN SubSeq(e.encoded, 1, e.len)

(* The slice ByteBarferExt::sleb128 hands on: &encoded[..len].             *)
sleb128_bytes(num) ==
    LET e == Scratch(sleb128_groups(num)) IN SubSeq(e.encoded, 1, e.len)

(* The argument of self.slice in each of the four encoders.                *)
varint_bytes(kind, num) ==
    CASE kind = "uleb128" -> uleb128_bytes(num)
      [] kind = "sleb128" -> sleb128_bytes(num)
      [] kind = "uvint64" -> vint64_encode(num)
      [] kind = "svint64" -> vint64_signed_encode(num)

(* an encoder that appends through many instead of slice.                  *)
varint_via_many(self, kind, num) == many(self, varint_bytes(kind, num))

(* ByteBarferExt::uleb128 / sleb128 / uvint64 / svint64:                   *)
(* self.slice(<encoded bytes>).                                            *)
varint(self, kind, num) == slice(self, varint_bytes(kind, num))

(* Numbers handed to the variable-length encoders.                         *)
VarNums(kind) ==
    IF kind \in {"uleb128", "uvint64"}
    THEN {0, 128, 314159, 2147483647}
    ELSE {-65, -1, 64, 314159}

(* ------------------------------------------------------------------ text *)
(* A char is its Unicode scalar value; a str is the sequence of its UTF-8  *)
(* bytes.                                                                  *)
(* char::len_utf8                                                          *)
len_utf8(c) ==
    IF c < 128 THEN 1 ELSE IF c < 2048 THEN 2 ELSE IF c < 65536 THEN 3 ELSE 4

(* char::encode_utf8 on buf = [0_u8; 4]: the scratch array after the call. *)
encode_utf8(c) ==
    CASE len_utf8(c) = 1 -> <<c, 0, 0, 0>>
      [] len_utf8(c) = 2 -> <<192 + (c \div 64), 128 + (c % 64), 0, 0>>
      [] len_utf8(c) = 3 ->
            <<224 + (c \div 4096), 128 + ((c \div 64) % 64), 128 + (c % 64), 0>>
      [] len_utf8(c) = 4 ->
            <<240 + (c \div 262144), 128 + ((c \div 4096) % 64),
              128 + ((c \div 64) % 64), 128 + (c % 64)>>

(* The slice ByteBarferExt::char hands on: &buf[..c.len_utf8()].           *)
char_bytes(c) == SubSeq(encode_utf8(c), 1, len_utf8(c))

(* The str whose chars are cs.                                             *)
RECURSIVE Str(_)
Str(cs) == IF cs = <<>> THEN <<>> ELSE char_bytes(Head(cs)) \o Str(Tail(cs))

(* str::as_bytes: the bytes the str is made of.                            *)
as_bytes(s) == s

(* The number of bytes of the char that starts with the byte b.            *)
utf8_width(b) ==
    IF b < 128 THEN 1 ELSE IF b < 224 THEN 2 ELSE IF b < 240 THEN 3 ELSE 4

(* The char spelt by the bytes of one UTF-8 sequence.                      *)
utf8_char(bytes) ==
    CASE Len(bytes) = 1 -> bytes[1]
      [] Len(bytes) = 2 -> (bytes[1] - 192) * 64 + (bytes[2] - 128)
      [] Len(bytes) = 3 ->
            (bytes[1] - 224) * 4096 + (bytes[2] - 128) * 64 + (bytes[3] - 128)
      [] Len(bytes) = 4 ->
            (bytes[1] - 240) * 262144 + (bytes[2] - 128) * 4096
              + (bytes[3] - 128) * 64 + (bytes[4] - 128)

(* str::chars, collected: the chars of s in order.                         *)
RECURSIVE chars(_)
chars(s) ==
    IF s = <<>> THEN <<>>
    ELSE LET n == utf8_width(Head(s)) IN
         <<utf8_char(SubSeq(s, 1, n))>> \o chars(SubSeq(s, n + 1, Len(s)))

(* ByteBarferExt::string: self.slice(s.as_ref().as_bytes())                *)
string(self, s) == slice(self, as_bytes(s))

(* ByteBarferExt::char                                                     *)
char(self, c) == slice(self, char_bytes(c))

(* CharBarferExt::string: self.many(s.as_ref().chars()). The iterator      *)
(* borrows s and decodes a char when asked for one: it owns none, and only *)
(* the char taken last is given up when many fails.                        *)
char_string(self, s) ==
    LET r == many(self, chars(s)) IN
    [r EXCEPT !.finalized = IF r.result = Ok THEN <<>>
                            ELSE <<chars(s)[r.pulled]>>]

(* CharBarferExt::string on a Vec<char>.                                   *)
char_string_vec(v, s) == vec_many(v, chars(s))

(* "", "hi" and "a\u{e9}" handed to the byte store; a char of every UTF-8   *)
(* length: 'a', U+00E9, U+20AC, U+1F600.                                   *)
ByteStrs == {Str(<<>>), Str(<<104, 105>>), Str(<<97, 233>>)}
Chars == {97, 233, 8364, 128512}

(* "", "a", "\u{e9}\u{20ac}" and "cd\u{1f600}" handed to the char store.   *)
CharStrs == {Str(<<>>), Str(<<97>>), Str(<<233, 8364>>),
             Str(<<99, 100, 128512>>)}

(* ---------------------------------------------------------------- actions *)
Call(op, via, input, r) ==
    [op |-> op, via |-> via, input |-> input, result |-> r.result,
     order |-> "none", ty |-> "none", num |-> 0,
     writes |-> r.writes, pulled |-> r.pulled, finalized |-> r.finalized,
     dropped |-> r.dropped, pre_len |-> len, pre_buffer |-> buffer]

Commit(r, input) == IF r.result = Ok THEN committed \o input ELSE committed

Hist(r, input) ==
    IF r.result = Ok
    THEN IF hist.failed THEN [hist EXCEPT !.after_fail = @ \o input] ELSE hist
    ELSE [failed |-> TRUE, fail_get |-> get(Self), after_fail |-> <<>>]

Store(r) == buffer' = r.buffer /\ len' = r.len

(* A fresh StackBuffer<T, N> and an empty Vec<T>.                          *)
InitStore ==
    /\ N \in 0..MaxN
    /\ buffer = new(N).buffer
    /\ len = new(N).len
    /\ alive = TRUE
    /\ committed = <<>>
    /\ pushed = <<>>
    /\ tracking = TRUE
    /\ hist = [failed |-> FALSE, fail_get |-> <<>>, after_fail |-> <<>>]
    /\ vec = <<>>
    /\ last = [op |-> "new", via |-> "none", input |-> <<>>, result |-> Ok,
               order |-> "none", ty |-> "none", num |-> 0,
               writes |-> 0, pulled |-> 0, finalized |-> <<>>, dropped |-> {},
               pre_len |-> 0, pre_buffer |-> new(N).buffer]

(* The calls of Spec, SpecMany and SpecPair neither read the byte order    *)
(* nor reach a usize overflow: one build stands for all.                   *)
Init == InitStore /\ target = "little" /\ overflow_checks = FALSE

(* Every target byte order.                                                *)
InitRound == InitStore /\ target \in {"little", "big"} /\ overflow_checks = FALSE

(* Builds with and without overflow checks.                                *)
InitWord == InitStore /\ target = "little" /\ overflow_checks \in BOOLEAN

Push(value) ==
    /\ alive
    /\ LET r == push(Self, value) IN
         /\ Store(r)
         /\ last' = Call("push", "none", <<value>>, r)
         /\ committed' = Commit(r, <<value>>)
         /\ hist' = Hist(r, <<value>>)
    /\ IF tracking /\ Len(pushed) < N
       THEN pushed' = Append(pushed, value) /\ tracking' = TRUE
       ELSE pushed' = <<>> /\ tracking' = FALSE
    /\ UNCHANGED <<N, alive, target, overflow_checks, vec>>

(* extend(iter) with iter a Vec<T> handed over by value.                   *)
Extend(iter) ==
    /\ alive
    /\ LET r == extend(Self, iter) IN
         /\ Store(r)
         /\ last' = Call("extend", "none", iter, r)
         /\ committed' = Commit(r, iter)
         /\ hist' = Hist(r, iter)
    /\ pushed' = <<>> /\ tracking' = FALSE
    /\ UNCHANGED <<N, alive, target, overflow_checks, vec>>

ExtendFromSlice(values) ==
    /\ alive
    /\ LET r == extend_from_slice(Self, values) IN
         /\ Store(r)
         /\ last' = Call("extend_from_slice", "none", values, r)
         /\ committed' = Commit(r, values)
         /\ hist' = Hist(r, values)
         /\ alive' = (r.result # Panic)
    /\ pushed' = <<>> /\ tracking' = FALSE
    /\ UNCHANGED <<N, target, overflow_checks, vec>>

ExtendUnbounded(cyc) ==
    /\ alive
    /\ LET r == extend_unbounded(Self, cyc) IN
         /\ Store(r)
         /\ last' = Call("extend_unbounded", "none", cyc, r)
         /\ committed' = Commit(r, cyc)
         /\ hist' = Hist(r, cyc)
    /\ pushed' = <<>> /\ tracking' = FALSE
    /\ UNCHANGED <<N, alive, target, overflow_checks, vec>>

Drop ==
    /\ alive
    /\ alive' = FALSE
    /\ LET r == drop(Self) IN
         /\ Store(r)
         /\ last' = Call("drop", "none", <<>>, r)
    /\ pushed' = <<>> /\ tracking' = FALSE
    /\ UNCHANGED <<N, committed, target, overflow_checks, hist, vec>>

Next ==
    \/ \E value \in Vals : Push(value)
    \/ \E iter \in Inputs : Extend(iter)
    \/ \E values \in Inputs : ExtendFromSlice(values)
    \/ \E cyc \in Cycles : ExtendUnbounded(cyc)
    \/ Drop

Spec == Init /\ [][Next]_vars

(* StackBuffer<u8, N> driven through ByteBarferExt.                        *)
InitBytes ==
    /\ N \in 0..MaxByteN
    /\ buffer = new(N).buffer
    /\ len = new(N).len
    /\ alive = TRUE
    /\ committed = <<>>
    /\ pushed = <<>>
    /\ tracking = FALSE
    /\ target \in {"little", "big"}
    /\ overflow_checks = FALSE
    /\ hist = [failed |-> FALSE, fail_get |-> <<>>, after_fail |-> <<>>]
    /\ vec = <<>>
    /\ last = [op |-> "new", via |-> "none", input |-> <<>>, result |-> Ok,
               order |-> "none", ty |-> "none", num |-> 0,
               writes |-> 0, pulled |-> 0, finalized |-> <<>>, dropped |-> {},
               pre_len |-> 0, pre_buffer |-> new(N).buffer]

Number(order, ty, num) ==
    /\ alive
    /\ LET bytes == encode(order, ty, num)
           r == number(Self, order, ty, num) IN
         /\ Store(r)
         /\ last' = [Call("number", "many", bytes, r) EXCEPT
                        !.order = order, !.ty = ty, !.num = num]
         /\ committed' = Commit(r, bytes)
    /\ pushed' = <<>> /\ tracking' = FALSE
    /\ UNCHANGED <<N, alive, target, overflow_checks, hist, vec>>

NextBytes == \E order \in Orders, ty \in ByteTypes : \E num \in Nums(ty) :
                 Number(order, ty, num)

SpecBytes == InitBytes /\ [][NextBytes]_vars

(* StackBuffer<u8, N> driven through the variable-length encoders.        *)
InitVarint ==
    /\ N \in 0..MaxVarN
    /\ buffer = new(N).buffer
    /\ len = new(N).len
    /\ alive = TRUE
    /\ committed = <<>>
    /\ pushed = <<>>
    /\ tracking = FALSE
    /\ target = "little"
    /\ overflow_checks = FALSE
    /\ hist = [failed |-> FALSE, fail_get |-> <<>>, after_fail |-> <<>>]
    /\ vec = <<>>
    /\ last = [op |-> "new", via |-> "none", input |-> <<>>, result |-> Ok,
               order |-> "none", ty |-> "none", num |-> 0,
               writes |-> 0, pulled |-> 0, finalized |-> <<>>, dropped |-> {},
               pre_len |-> 0, pre_buffer |-> new(N).buffer]

Varint(kind, num) ==
    /\ alive
    /\ LET bytes == varint_bytes(kind, num)
           r == varint(Self, kind, num) IN
         /\ Store(r)
         /\ last' = [Call(kind, "slice", bytes, r) EXCEPT !.num = num]
         /\ committed' = Commit(r, bytes)
    /\ pushed' = <<>> /\ tracking' = FALSE
    /\ UNCHANGED <<N, alive, target, overflow_checks, hist, vec>>

(* ByteBarferExt::string on the StackBuffer<u8, N>.                        *)
String(s) ==
    /\ alive
    /\ LET r == string(Self, s) IN
         /\ Store(r)
         /\ last' = Call("string", "slice", as_bytes(s), r)
         /\ committed' = Commit(r, as_bytes(s))
    /\ pushed' = <<>> /\ tracking' = FALSE
    /\ UNCHANGED <<N, alive, target, overflow_checks, hist, vec>>

(* ByteBarferExt::char on the StackBuffer<u8, N>.                          *)
Char(c) ==
    /\ alive
    /\ LET r == char(Self, c) IN
         /\ Store(r)
         /\ last' = [Call("char", "slice", char_bytes(c), r) EXCEPT !.num = c]
         /\ committed' = Commit(r, char_bytes(c))
    /\ pushed' = <<>> /\ tracking' = FALSE
    /\ UNCHANGED <<N, alive, target, overflow_checks, hist, vec>>

NextVarint ==
    \/ \E kind \in VarintKinds : \E num \in VarNums(kind) : Varint(kind, num)
    \/ \E s \in ByteStrs : String(s)
    \/ \E c \in Chars : Char(c)

SpecVarint == InitVarint /\ [][NextVarint]_vars

(* One number appended to an empty Vec<u8>.                                *)
NumberVec(order, ty, num) ==
    /\ vec = <<>>
    /\ vec' = number_vec(vec, order, ty, num)
    /\ last' = [Call("number_vec", "many", encode(order, ty, num),
                     Ret(buffer, len, Ok, 0, Width(ty), <<>>)) EXCEPT
                   !.order = order, !.ty = ty, !.num = num]
    /\ UNCHANGED <<N, buffer, len, alive, committed, pushed, tracking, target,
                   overflow_checks, hist>>

NextRound == \E order \in Orders, ty \in IntTypes \cup FloatTypes :
                 \E num \in RoundNums(ty) : NumberVec(order, ty, num)

SpecRound == InitRound /\ [][NextRound]_vars

(* A StackBuffer<T, N> and a Vec<T> given the same Barfer calls.           *)
PairSingle(value) ==
    /\ alive
    /\ Len(vec) + 1 <= MaxVec
    /\ LET r == single(Self, value) IN
         /\ Store(r)
         /\ last' = Call("single", "push", <<value>>, r)
         /\ committed' = Commit(r, <<value>>)
         /\ alive' = (r.result # Panic)
    /\ vec' = vec_single(vec, value)
    /\ pushed' = <<>> /\ tracking' = FALSE
    /\ UNCHANGED <<N, target, overflow_checks, hist>>

PairMany(iter) ==
    /\ alive
    /\ Len(vec) + Len(iter) <= MaxVec
    /\ LET r == many(Self, iter) IN
         /\ Store(r)
         /\ last' = Call("many", "extend", iter, r)
         /\ committed' = Commit(r, iter)
         /\ alive' = (r.result # Panic)
    /\ vec' = vec_many(vec, iter)
    /\ pushed' = <<>> /\ tracking' = FALSE
    /\ UNCHANGED <<N, target, overflow_checks, hist>>

PairSlice(values) ==
    /\ alive
    /\ Len(vec) + Len(values) <= MaxVec
    /\ LET r == slice(Self, values) IN
         /\ Store(r)
         /\ last' = Call("slice", "extend_from_slice", values, r)
         /\ committed' = Commit(r, values)
         /\ alive' = (r.result # Panic)
    /\ vec' = vec_slice(vec, values)
    /\ pushed' = <<>> /\ tracking' = FALSE
    /\ UNCHANGED <<N, target, overflow_checks, hist>>

(* CharBarferExt::string on a StackBuffer<char, N> and on a Vec<char>.     *)
PairString(s) ==
    /\ alive
    /\ Len(vec) + Len(chars(s)) <= MaxVec
    /\ LET r == char_string(Self, s) IN
         /\ Store(r)
         /\ last' = Call("char_string", "many", chars(s), r)
         /\ committed' = Commit(r, chars(s))
         /\ alive' = (r.result # Panic)
    /\ vec' = char_string_vec(vec, s)
    /\ pushed' = <<>> /\ tracking' = FALSE
    /\ UNCHANGED <<N, target, overflow_checks, hist>>

NextPair ==
    \/ \E value \in Vals : PairSingle(value)
    \/ \E iter \in Inputs : PairMany(iter)
    \/ \E values \in Inputs : PairSlice(values)
    \/ \E s \in CharStrs : PairString(s)

SpecPair == Init /\ [][NextPair]_vars

(* StackBuffer<(), N>: slices of a zero-sized type of every length a usize *)
(* can hold.                                                               *)
Unit == 1
ZstSlices == {[i \in 1..m |-> Unit] : m \in 0..(UsizeRange - 1)}

NextWord == \E values \in ZstSlices : ExtendFromSlice(values)

SpecWord == InitWord /\ [][NextWord]_vars

(* A store that implements single as StackBuffer does and keeps the        *)
(* trait's provided many.                                                  *)
Single(value) ==
    /\ alive
    /\ LET r == single(Self, value) IN
         /\ Store(r)
         /\ last' = Call("single", "push", <<value>>, r)
         /\ committed' = Commit(r, <<value>>)
    /\ pushed' = <<>> /\ tracking' = FALSE
    /\ UNCHANGED <<N, alive, target, overflow_checks, hist, vec>>

(* The provided many(iter) with iter a Vec<T> handed over by value.        *)
ManyDefault(iter) ==
    /\ alive
    /\ LET r == many_default(Self, iter) IN
         /\ Store(r)
         /\ last' = Call("many_default", "single", iter, r)
         /\ committed' = committed \o
                SubSeq(iter, 1, IF r.result = Ok THEN r.pulled ELSE r.pulled - 1)
    /\ pushed' = <<>> /\ tracking' = FALSE
    /\ UNCHANGED <<N, alive, target, overflow_checks, hist, vec>>

NextMany ==
    \/ \E value \in Vals : Single(value)
    \/ \E iter \in Inputs : ManyDefault(iter)

SpecMany == Init /\ [][NextMany]_vars

(* ----------------------------------------------------------------- claims *)
PreGet == [i \in 1..last.pre_len |-> last.pre_buffer[i - 1]]
Fits == last.pre_len + Len(last.input) <= N

(* C1: after any sequence of push, extend and extend_from_slice calls,     *)
(* 0 <= len <= N, get() has len elements, none of them an unwritten slot,  *)
(* and get() is exactly the elements of the appends that returned Ok, in   *)
(* order: nothing of a rolled-back attempt is exposed.                     *)
C1_LiveRange ==
    /\ len \in 0..N
    /\ DOMAIN buffer = 0..(N - 1)
    /\ Len(get(Self)) = len
    /\ \A i \in 0..(len - 1) : buffer[i] # Uninit
    /\ get(Self) = committed

(* A successful append lands on a slot that a rolled-back extend wrote.    *)
C1_Witness ==
    /\ last.op \in {"push", "extend", "extend_from_slice"}
    /\ last.result = Ok
    /\ last.pre_len < N
    /\ len > last.pre_len
    /\ last.pre_buffer[last.pre_len] # Uninit

(* C2: k <= N pushes on a fresh store all return Ok, len = k and get() is  *)
(* the pushed values in push order.                                        *)
C2_PushesWithinCapacity ==
    (tracking /\ last.op = "push") =>
        /\ last.result = Ok
        /\ len = Len(pushed)
        /\ get(Self) = pushed

C2_Witness ==
    /\ tracking
    /\ last.op = "push"
    /\ N >= 2
    /\ Len(pushed) = N
    /\ pushed[1] # pushed[N]

(* C3: push on a store with len = N (N = 0 included) returns               *)
(* NotEnoughCapacity and leaves len, get() and every slot as they were.    *)
C3_PushFull ==
    (last.op = "push" /\ last.pre_len = N) =>
        /\ last.result = NotEnoughCapacity
        /\ len = last.pre_len
        /\ get(Self) = PreGet
        /\ buffer = last.pre_buffer

C3_Witness ==
    /\ last.op = "push"
    /\ last.pre_len = N
    /\ N >= 1
    /\ last.result = NotEnoughCapacity

(* C4: extend returns Ok iff len + m <= N; on Ok len grows by m and get()  *)
(* is the old contents followed by the m elements; otherwise it returns    *)
(* NotEnoughCapacity and (len, get()) is as before the call.               *)
C4_ExtendAtomic ==
    (last.op = "extend") =>
        /\ (last.result = Ok) <=> Fits
        /\ last.result \in {Ok, NotEnoughCapacity}
        /\ last.result = Ok =>
              /\ len = last.pre_len + Len(last.input)
              /\ get(Self) = PreGet \o last.input
        /\ last.result = NotEnoughCapacity =>
              /\ len = last.pre_len
              /\ get(Self) = PreGet

(* A failed extend that had free slots to write before it ran out.         *)
C4_Witness ==
    /\ last.op = "extend"
    /\ last.result = NotEnoughCapacity
    /\ last.pre_len >= 1
    /\ last.pre_len < N
    /\ last.writes >= 1

(* C5: extend_from_slice with len + m > N writes no slot: all N slots and  *)
(* len are as before the call and the result is NotEnoughCapacity. It      *)
(* holds while len + m stays within usize and fails beyond (see C20).      *)
C5_SliceNoWrite ==
    (last.op = "extend_from_slice" /\ ~Fits) =>
        /\ last.result = NotEnoughCapacity
        /\ last.writes = 0
        /\ buffer = last.pre_buffer
        /\ len = last.pre_len

(* C6: extend_from_slice returns Ok iff len + m <= N, and on Ok len grows  *)
(* by m and get() is the old contents followed by the slice's elements.    *)
C6_SliceAppend ==
    (last.op = "extend_from_slice") =>
        /\ (last.result = Ok) <=> Fits
        /\ last.result = Ok =>
              /\ len = last.pre_len + Len(last.input)
              /\ get(Self) = PreGet \o last.input
              /\ last.writes = Len(last.input)

(* A slice of two or more elements that fills the store exactly.           *)
C6_Witness ==
    /\ last.op = "extend_from_slice"
    /\ last.result = Ok
    /\ Len(last.input) >= 2
    /\ last.input[1] # last.input[2]
    /\ len = N

(* C8: on a byte store a number of byte width w is appended iff            *)
(* len + w <= N; then its w bytes are get()[old len .. old len + w) and    *)
(* decode to the number, else the result is NotEnoughCapacity and len and  *)
(* get() are unchanged. With N = 10: le_u64(42) gives len 8 and bytes      *)
(* 42,0,0,0,0,0,0,0; le_u64(42) at len 8 fails; le_u16(42) at len 8 gives  *)
(* len 10 and bytes [8..10) that decode to 42.                             *)
C8_NumberAppend ==
    (last.op = "number") =>
        LET w == Width(last.ty)
            le64 == last.order = "le" /\ last.ty = "u64" /\ last.num = 42
            le16 == last.order = "le" /\ last.ty = "u16" /\ last.num = 42
        IN  /\ (last.result = Ok) <=> (last.pre_len + w <= N)
            /\ last.result = Ok =>
                  /\ len = last.pre_len + w
                  /\ SubSeq(get(Self), 1, last.pre_len) = PreGet
                  /\ decode(last.order, last.ty,
                            SubSeq(get(Self), last.pre_len + 1, len))
                       = last.num
            /\ last.result # Ok =>
                  /\ last.result = NotEnoughCapacity
                  /\ len = last.pre_len
                  /\ get(Self) = PreGet
            /\ (N = 10 /\ le64 /\ last.pre_len = 0) =>
                  /\ len = 8
                  /\ get(Self) = <<42, 0, 0, 0, 0, 0, 0, 0>>
            /\ (N = 10 /\ le64 /\ last.pre_len = 8) =>
                  /\ last.result = NotEnoughCapacity
                  /\ len = 8
            /\ (N = 10 /\ le16 /\ last.pre_len = 8) =>
                  /\ len = 10
                  /\ from_le_bytes(SubSeq(get(Self), 9, 10), FALSE) = 42

(* The end of the scenario: capacity 10, the 8 bytes of le_u64(42), slots  *)
(* 8 and 9 left behind by the failed second le_u64(42), then le_u16(42).   *)
C8_Witness ==
    /\ N = 10
    /\ last.op = "number" /\ last.order = "le" /\ last.ty = "u16" /\ last.num = 42
    /\ PreGet = <<42, 0, 0, 0, 0, 0, 0, 0>>
    /\ last.pre_buffer[8] = 42 /\ last.pre_buffer[9] = 0
    /\ last.result = Ok
    /\ len = 10

(* C9: every fixed-width numeric encoder hands its bytes to the store in   *)
(* one call of the capability's slice, never through single or many, so on *)
(* a StackBuffer no slot is written when the number does not fit.          *)
C9_NumberViaSlice ==
    (last.op = "number") =>
        /\ last.via = "slice"
        /\ (last.pre_len + Width(last.ty) > N) =>
              /\ last.writes = 0
              /\ buffer = last.pre_buffer

(* C10: the provided many calls single once per element in order and stops *)
(* at the first failure: if element j (0-based) is the first to fail, many *)
(* returns that error, exactly the j elements before it stay appended and  *)
(* j + 1 elements were taken from the input; if none fails all are         *)
(* appended and many returns Ok.                                           *)
C10_DefaultMany ==
    (last.op = "many_default") =>
        LET m == Len(last.input)
            j == N - last.pre_len
        IN  IF last.pre_len + m <= N
            THEN /\ last.result = Ok
                 /\ last.pulled = m
                 /\ get(Self) = PreGet \o last.input
            ELSE /\ last.result = NotEnoughCapacity
                 /\ last.pulled = j + 1
                 /\ len = last.pre_len + j
                 /\ get(Self) = PreGet \o SubSeq(last.input, 1, j)

(* A provided many that failed after at least one element went in, with    *)
(* elements left in the input after the failing one.                       *)
C10_Witness ==
    /\ last.op = "many_default"
    /\ last.result = NotEnoughCapacity
    /\ len > last.pre_len
    /\ last.pulled < Len(last.input)

(* Decoding of unsigned LEB128: the groups weighted by 128^position.       *)
RECURSIVE uleb128_value(_)
uleb128_value(bytes) ==
    IF Len(bytes) = 1 THEN bytes[1] % 128
    ELSE (bytes[1] % 128) + 128 * uleb128_value(Tail(bytes))

(* C11: uleb128(num) hands on exactly the unsigned LEB128 bytes of num:    *)
(* at least one 7-bit group, least significant first, bit 7 set on every   *)
(* byte but the last, no trailing zero group, the groups spelling num;     *)
(* when they fit they are what is appended. 314159 gives 175, 150, 19.     *)
C11_Uleb128 ==
    (last.op = "uleb128") =>
        LET b == last.input
            k == Len(b)
        IN  /\ k >= 1
            /\ \A i \in 1..(k - 1) : b[i] \in 128..255
            /\ b[k] \in 0..127
            /\ (k > 1) => b[k] # 0
            /\ uleb128_value(b) = last.num
            /\ (last.num = 314159) => b = <<175, 150, 19>>
            /\ (last.result = Ok) => get(Self) = PreGet \o b

C11_Witness ==
    /\ last.op = "uleb128"
    /\ last.num = 314159
    /\ last.result = Ok
    /\ last.pre_len >= 1
    /\ SubSeq(get(Self), last.pre_len + 1, len) = <<175, 150, 19>>

(* C12: for every integer type, byte order and value, the encoder appends  *)
(* size_of(T) bytes to an empty Vec<u8>, and the matching from_*_bytes     *)
(* of those bytes is the value.                                            *)
C12_RoundTrip ==
    (last.op = "number_vec" /\ last.ty \in IntTypes) =>
        /\ Len(vec) = Width(last.ty)
        /\ \A i \in 1..Len(vec) : vec[i] \in 0..255
        /\ from_bytes(last.order, vec, Signed(last.ty)) = last.num

(* A negative value of a wide type, big-endian: sign extension and order.  *)
C12_Witness ==
    /\ last.op = "number_vec"
    /\ last.order = "be"
    /\ last.ty = "i64"
    /\ last.num = -129
    /\ vec = <<255, 255, 255, 255, 255, 255, 255, 127>>

(* C18: each variable-length encoder hands 1 to 10 bytes to slice in one   *)
(* call; on a StackBuffer, if they do not fit the result is                *)
(* NotEnoughCapacity with no slot written and len unchanged, else all      *)
(* bytes are appended in order.                                            *)
C18_VarintAtomic ==
    (last.op \in VarintKinds) =>
        LET k == Len(last.input) IN
        /\ last.via = "slice"
        /\ k \in 1..10
        /\ IF k > N - last.pre_len
           THEN /\ last.result = NotEnoughCapacity
                /\ last.writes = 0
                /\ buffer = last.pre_buffer
                /\ len = last.pre_len
           ELSE /\ last.result = Ok
                /\ len = last.pre_len + k
                /\ get(Self) = PreGet \o last.input

(* An encoding of several bytes rejected by a store with free, unwritten   *)
(* slots.                                                                  *)
C18_Witness ==
    /\ last.op \in VarintKinds
    /\ Len(last.input) >= 2
    /\ last.pre_len >= 1
    /\ last.pre_len < N
    /\ last.pre_buffer[last.pre_len] = Uninit
    /\ last.result = NotEnoughCapacity

Appends == {"push", "extend", "extend_from_slice", "extend_unbounded"}
Finite == {"push", "extend", "extend_from_slice"}

(* C13: after an append that returned NotEnoughCapacity, any later append  *)
(* that fits returns Ok, and get() is the contents from before the failed  *)
(* call followed by the elements appended since: what a failed extend      *)
(* wrote into the tail never shows.                                        *)
C13_UsableAfterFailure ==
    (hist.failed /\ last.op \in Appends) =>
        /\ (last.op \in Finite /\ Fits) =>
              /\ last.result = Ok
              /\ get(Self) = PreGet \o last.input
        /\ get(Self) = hist.fail_get \o hist.after_fail

(* An append after a failure that overwrites a slot the failed extend had  *)
(* written, with a different value.                                        *)
C13_Witness ==
    /\ hist.failed
    /\ Len(hist.fail_get) >= 1
    /\ Len(hist.after_fail) >= 1
    /\ last.op \in Finite
    /\ last.result = Ok
    /\ last.pre_len < N
    /\ last.pre_buffer[last.pre_len] # Uninit
    /\ buffer[last.pre_len] # last.pre_buffer[last.pre_len]

(* C14 as stated: once len = N no push, extend or extend_from_slice        *)
(* returns success, whatever the input, empty ones included.               *)
C14_FullRejectsAll ==
    (last.op \in Appends /\ last.pre_len = N) =>
        /\ last.result # Ok
        /\ len = N

(* C14 amended: once len = N, len stays N and get() stays as it is; a call *)
(* returns success exactly when its input is empty.                        *)
C14_FullTerminal ==
    [][(len = N /\ last'.op \in Appends) =>
          /\ len' = N
          /\ get([buffer |-> buffer', len |-> len']) = get(Self)
          /\ (last'.result = Ok) <=> (last'.input = <<>>)]_vars

(* An empty extend accepted by a full store of capacity at least 1.        *)
C14_Witness ==
    /\ last.op \in {"extend", "extend_from_slice"}
    /\ last.input = <<>>
    /\ last.pre_len = N
    /\ N >= 1
    /\ last.result = Ok

(* C15: across one push, extend or extend_from_slice call len does not     *)
(* decrease and the old get() is a prefix of the new one; a call that      *)
(* returns Ok adds as many elements as it was given, a failed one none.    *)
C15_AppendOnly ==
    [][(last'.op \in Appends) =>
          LET after == get([buffer |-> buffer', len |-> len']) IN
          /\ len' >= len
          /\ SubSeq(after, 1, len) = get(Self)
          /\ (last'.result = Ok) => len' = len + Len(last'.input)
          /\ (last'.result # Ok) => len' = len]_vars

(* A failed push on a full, non-empty store.                               *)
C15_Witness ==
    /\ last.op = "push"
    /\ last.result = NotEnoughCapacity
    /\ len >= 2
    /\ get(Self) = PreGet

(* C16: extend returns on an input that never ends; when the input is      *)
(* longer than the free capacity it takes N - len + 1 elements (len before *)
(* the call), writes N - len of them and returns NotEnoughCapacity.        *)
C16_ExtendPullBound ==
    /\ (last.op = "extend_unbounded") => last.result = NotEnoughCapacity
    /\ (last.op \in {"extend", "extend_unbounded"}
          /\ last.result = NotEnoughCapacity) =>
            /\ last.pulled = N - last.pre_len + 1
            /\ last.writes = N - last.pre_len
    /\ (last.op = "extend") => last.pulled <= Len(last.input)

(* An endless input given to a store with used and free slots.             *)
C16_Witness ==
    /\ last.op = "extend_unbounded"
    /\ last.pre_len >= 1
    /\ last.pre_len < N
    /\ last.pulled >= 2
    /\ len = last.pre_len

(* The k-th element the last call took from its input.                     *)
InputAt(k) ==
    IF last.op = "extend_unbounded" THEN CycleAt(last.input, k)
    ELSE last.input[k]

(* The elements the input of the last call had not yielded when the call   *)
(* returned, for an input that owns its elements.                          *)
Unpulled ==
    IF last.op = "extend_unbounded" THEN <<>>
    ELSE SubSeq(last.input, last.pulled + 1, Len(last.input))

(* C19: a failed extend leaves the N - initial_len elements it wrote in    *)
(* the slots [initial_len, N), finalises none of them and no slot; of the  *)
(* elements it pulled it finalises only the last, whose pull found the     *)
(* store full (whatever else is finalised during the call was never        *)
(* pulled); len is back at initial_len, so no readable slot owns the       *)
(* written elements. An append that returns Ok finalises nothing, the      *)
(* previous occupants of the slots it writes included.                     *)
C19_FailedExtendOwnership ==
    /\ (last.op \in {"extend", "extend_unbounded"}
          /\ last.result = NotEnoughCapacity) =>
            /\ last.writes = N - last.pre_len
            /\ last.pulled = last.writes + 1
            /\ \A k \in 1..last.writes :
                   buffer[last.pre_len + k - 1] = InputAt(k)
            /\ last.finalized = <<InputAt(last.pulled)>> \o Unpulled
            /\ last.dropped = {}
            /\ len = last.pre_len
    /\ (last.op \in Appends /\ last.result = Ok) =>
            /\ last.finalized = <<>>
            /\ last.dropped = {}

(* A failed extend that moved elements into the tail and left an element   *)
(* in its input.                                                           *)
C19_Witness ==
    /\ last.op = "extend"
    /\ last.result = NotEnoughCapacity
    /\ last.writes >= 1
    /\ last.pulled < Len(last.input)
    /\ Len(last.finalized) = 2
    /\ buffer[last.pre_len] # Uninit
    /\ len = last.pre_len

(* C17: while the calls made so far carry at most N elements in total,     *)
(* every single, many and slice call returned Ok on the StackBuffer as on  *)
(* the Vec, and get() equals the Vec's contents.                           *)
C17_MatchesVec ==
    (Len(vec) <= N) =>
        /\ (last.op \in {"single", "many", "slice"}) => last.result = Ok
        /\ get(Self) = vec

(* A slice call that fills the StackBuffer exactly, after earlier calls.   *)
C17_Witness ==
    /\ last.op = "slice"
    /\ Len(last.input) >= 1
    /\ last.pre_len >= 1
    /\ Len(vec) = N
    /\ get(Self) = vec

(* C20: extend_from_slice with len + m > N returns NotEnoughCapacity with  *)
(* len and every slot unchanged for every slice length a usize can hold,   *)
(* those whose sum with len exceeds usize::MAX included; it never aborts.  *)
C20_SliceCheckNoWrap ==
    (last.op = "extend_from_slice" /\ last.pre_len + Len(last.input) > N) =>
        /\ last.result = NotEnoughCapacity
        /\ len = last.pre_len
        /\ buffer = last.pre_buffer

(* C7: destroying the store finalises exactly the occupants of the slots   *)
(* [0, len) and no slot of the tail [len, N).                              *)
C7_DropReleasesLive ==
    (last.op = "drop") => last.dropped = 0..(last.pre_len - 1)
====
